---- MODULE Spec2Model ----
(***************************************************************************)
(* csscan.py: a ROM collection checked against a reference catalog (DAT).  *)
(*                                                                         *)
(*   parse_dat     builds the catalog `games`                              *)
(*   read_zips     builds the ContentIndex `roms` and the FileIndex `files`*)
(*   find_missing  resolves every (game, rom) obligation through the       *)
(*                 cloneof / romof / merge links and builds the report     *)
(*                                                                         *)
(* Names (of games, roms, archive entries) are sequences of characters,    *)
(* so that os.path.join and the XPath predicates find_missing builds from  *)
(* them are computed, not assumed.  A hash is the pair <<size, crc>>.      *)
(* A python dict is a function; a key that may be missing ('cloneof',      *)
(* 'romof', 'merge') is a field that may be missing from the DOMAIN.       *)
(***************************************************************************)
EXTENDS Integers, Sequences, FiniteSets, TLC

VARIABLES
    unmerged,    \* args.unmerged
    games,       \* parse_dat's result
    roms,        \* ContentIndex: hash -> [name, path, file]
    files,       \* FileIndex: zipname -> (entry name -> hash)
    pc,          \* where the program is
    rompaths,    \* read_zips: the primary paths, in list order
    addpaths,    \* read_zips: the auxiliary paths, in list order
    phase,       \* read_zips: which read_zip_dir call is running
    idx,         \* read_zip_dir: position of the for loop in its path list
    scanned,     \* history: every archive entry enumerated so far, in order
    todoGames,   \* find_missing: games the outer loop has not reached
    gamename,    \* find_missing: the outer loop's game
    todoRoms,    \* find_missing: roms of gamename the inner loop has not reached
    romname,     \* find_missing: the inner loop's rom
    endgame,     \* find_missing: the cursor's game
    endrom,      \* find_missing: the cursor's rom name
    endname,     \* find_missing: the entry name looked up
    missing,     \* find_missing: the report, the children of <missing>
    trail,       \* history: the ascent steps of the current obligation
    log          \* history: the obligations classified so far

vars == <<unmerged, games, roms, files, pc, rompaths, addpaths, phase, idx,
          scanned, todoGames, gamename, todoRoms, romname, endgame, endrom,
          endname, missing, trail, log>>

scanVars == <<rompaths, addpaths, phase, idx, scanned>>

findVars == <<todoGames, gamename, todoRoms, romname, endgame, endrom,
              endname, missing, trail, log>>

----------------------------------------------------------------------------
(* Bounds of the model.                                                    *)

\* expected files (rom elements) in a catalog document
MaxRoms == 2

\* entries of one archive
MaxEntries == 1

\* ascent steps the history `trail` records (it saturates, the loop does not)
MaxSteps == 4

----------------------------------------------------------------------------
(* Names and hashes.                                                       *)

None == <<>>

GameA == <<"A">>

GameB == <<"B">>

\* a name with an apostrophe, as in "Kirby's Adventure"
GameC == <<"C", "'">>

GameNames == {GameA, GameB, GameC}

RomF == <<"f">>

RomM == <<"m">>

RomNames == {RomF, RomM}

\* the expected hash of every verifiable rom of the model's catalogs
HashOK == <<1, 1>>

\* same checksum, other size
HashSize == <<2, 1>>

\* other checksum
HashCrc == <<1, 2>>

Chars(name) == {name[i] : i \in 1..Len(name)}

\* os.path.join(a, b) on posix
Join(a, b) ==
    IF Len(b) > 0 /\ b[1] = "/" THEN b
    ELSE IF Len(a) = 0 \/ a[Len(a)] = "/" THEN a \o b
    ELSE a \o <<"/">> \o b

HexDigit(c) ==
    CASE c = "0" -> 0 [] c = "1" -> 1 [] c = "2" -> 2 [] c = "3" -> 3
      [] c = "4" -> 4 [] c = "5" -> 5 [] c = "6" -> 6 [] c = "7" -> 7
      [] c = "8" -> 8 [] c = "9" -> 9 [] c = "a" -> 10 [] c = "b" -> 11
      [] c = "c" -> 12 [] c = "d" -> 13 [] c = "e" -> 14 [] c = "f" -> 15

\* int(text, base=16)
RECURSIVE HexInt(_)
HexInt(text) ==
    IF Len(text) = 0 THEN 0
    ELSE 16 * HexInt(SubSeq(text, 1, Len(text) - 1)) + HexDigit(text[Len(text)])

----------------------------------------------------------------------------
(* parse_dat: the catalog document and the catalog built from it.          *)

\* a <rom> element's attributes -> games[gamename]['roms'][romname]
ParseRom(rom) ==
    LET romcrc == IF "status" \notin DOMAIN rom \/ rom.status # "nodump"
                  THEN HexInt(rom.crc) ELSE 0
        entry  == [hash |-> <<rom.size, romcrc>>]
    IN  IF "merge" \in DOMAIN rom THEN entry @@ [merge |-> rom.merge] ELSE entry

\* a <game> element's attributes and <rom> children -> games[gamename]
ParseGame(attrib, romElems) ==
    LET base == [roms |-> [r \in DOMAIN romElems |-> ParseRom(romElems[r])]]
    IN  IF "cloneof" \in DOMAIN attrib THEN base @@ [cloneof |-> attrib.cloneof]
        ELSE IF "romof" \in DOMAIN attrib THEN base @@ [romof |-> attrib.romof]
        ELSE base

\* doc: game name -> [attrib, roms]
parse_dat(doc) ==
    [g \in DOMAIN doc |-> ParseGame(doc[g].attrib, doc[g].roms)]

----------------------------------------------------------------------------
(* read_zip_dir / read_zips: the archives on disk and the two indexes.     *)

\* d[k] = v on a python dict
SetItem(d, k, v) == (k :> v) @@ d

LastIndexOf(path, c) ==
    LET hits == {i \in 1..Len(path) : path[i] = c}
    IN  IF hits = {} THEN 0 ELSE CHOOSE i \in hits : \A j \in hits : j <= i

\* os.path.splitext(path)[0]
SplitExtRoot(path) ==
    LET sep == LastIndexOf(path, "/")
        dot == LastIndexOf(path, ".")
    IN  IF dot > sep /\ \E i \in (sep + 1)..(dot - 1) : path[i] # "."
        THEN SubSeq(path, 1, dot - 1)
        ELSE path

\* os.path.basename(path)
Basename(path) == SubSeq(path, LastIndexOf(path, "/") + 1, Len(path))

\* line 77
ZipName(zippath) == Basename(SplitExtRoot(zippath))

\* a ContentIndex that records a hash where it is last seen
RegisterLatest(r, hash, here) == SetItem(r, hash, here)

\* lines 85-86 and 93-94: a hash is recorded where it is first seen
Register(r, hash, here) ==
    IF hash \notin DOMAIN r THEN SetItem(r, hash, here) ELSE r

\* lines 81-86 and 90-94: the entries of one opened archive, in the archive's
\* enumeration order; d is [roms, table], table being files[zipname]
RECURSIVE IndexEntries(_, _, _, _)
IndexEntries(entries, zipname, zippath, d) ==
    IF Len(entries) = 0 THEN d
    ELSE LET e    == Head(entries)
             hash == e.hash
             here == [name |-> zipname, path |-> zippath, file |-> e.name]
         IN  IndexEntries(Tail(entries), zipname, zippath,
                 [roms  |-> Register(d.roms, hash, here),
                  table |-> SetItem(d.table, e.name, hash)])

\* What a path holds.  kind "7z": py7zlib opens it.  "zip": py7zlib raises
\* FormatError and zipfile opens it.  "junk": FormatError, then zipfile raises.
\* "unreadable": open(zippath) raises IOError (a directory named x.zip, a file
\* without read permission).  "unsupported": py7zlib raises an error other than
\* FormatError (an encrypted or unsupported 7z).
OpensAs7z(content) == content.kind = "7z"

RaisesFormatError(content) == content.kind \in {"zip", "junk"}

OpensAsZip(content) == content.kind = "zip"

\* lines 77-96: one iteration of read_zip_dir's loop
ReadArchive(zippath, content, romsIn, filesIn) ==
    LET zipname == ZipName(zippath)
        files0  == SetItem(filesIn, zipname, <<>>)
        d       == IndexEntries(content.entries, zipname, zippath,
                                [roms |-> romsIn, table |-> <<>>])
    IN  IF OpensAs7z(content) \/ (RaisesFormatError(content) /\ OpensAsZip(content))
        THEN [raised |-> FALSE, roms |-> d.roms,
              files |-> SetItem(files0, zipname, d.table)]
        ELSE IF RaisesFormatError(content)
        THEN [raised |-> FALSE, roms |-> romsIn, files |-> files0]
        ELSE [raised |-> TRUE, roms |-> romsIn, files |-> files0]

\* the history of one iteration: the entries it enumerated
Enumerated(zippath, content) ==
    IF OpensAs7z(content) \/ (RaisesFormatError(content) /\ OpensAsZip(content))
    THEN [i \in 1..Len(content.entries) |->
            [hash |-> content.entries[i].hash, name |-> ZipName(zippath),
             path |-> zippath, file |-> content.entries[i].name]]
    ELSE <<>>

\* lines 75-98: read_zip_dir over a whole list, none of whose archives raises
RECURSIVE read_zip_dir(_, _, _, _)
read_zip_dir(paths, disk, romsIn, filesIn) ==
    IF Len(paths) = 0 THEN [roms |-> romsIn, files |-> filesIn]
    ELSE LET r == ReadArchive(Head(paths), disk[Head(paths)], romsIn, filesIn)
         IN  read_zip_dir(Tail(paths), disk, r.roms, r.files)

\* lines 101-105
read_zips(primary, aux, disk) ==
    LET first  == read_zip_dir(primary, disk, <<>>, <<>>)
        second == read_zip_dir(aux, disk, first.roms, <<>>)
    IN  [roms |-> second.roms, files |-> first.files]

RECURSIVE EnumeratedAll(_, _)
EnumeratedAll(paths, disk) ==
    IF Len(paths) = 0 THEN <<>>
    ELSE Enumerated(Head(paths), disk[Head(paths)]) \o EnumeratedAll(Tail(paths), disk)

----------------------------------------------------------------------------
(* find_missing: pure parts.                                               *)

\* a hash whose checksum is zero (line 114)
IsNodump(hash) == hash[2] = 0

\* a loop that ascends whatever the flag says
MergedAlways(flag) == TRUE

\* line 128: "elif not args.unmerged"
Merged(flag) == ~flag

\* line 125: the name the rom has in the parent
MergeName(entry) == entry.merge

\* an entry name taken from the game the cursor is on
CompositeNameOfCursor(owner, cursor, rom) == Join(cursor, rom)

\* line 129: the entry name of a rom that stays in its own game's directory
\* inside the parent's archive
CompositeName(owner, cursor, rom) == Join(owner, rom)

\* lines 134-140: the romof fallback, on the cursor the while loop left
RomOf(g, cursor) ==
    IF "romof" \in DOMAIN g[cursor.endgame]
       /\ cursor.endname = cursor.endrom
       /\ (cursor.endrom \notin DOMAIN g[cursor.endgame].roms
           \/ "merge" \in DOMAIN g[cursor.endgame].roms[cursor.endrom])
    THEN LET renamed == IF cursor.endrom \in DOMAIN g[cursor.endgame].roms
                        THEN g[cursor.endgame].roms[cursor.endrom].merge
                        ELSE cursor.endrom
         IN  [endgame |-> g[cursor.endgame].romof,
              endrom  |-> renamed,
              endname |-> IF cursor.endrom \in DOMAIN g[cursor.endgame].roms
                          THEN renamed ELSE cursor.endname]
    ELSE cursor

\* a lookup that compares the checksum alone
LookupChecksum(f, cursor, hash) ==
    IF cursor.endgame \in DOMAIN f /\ cursor.endname \in DOMAIN f[cursor.endgame]
       /\ f[cursor.endgame][cursor.endname][2] = hash[2]
    THEN "continue"
    ELSE "report"

\* lines 142-147: "continue" (the obligation is satisfied), or the value of
\* sizemismatch the report is built with
Lookup(f, cursor, hash) ==
    IF cursor.endgame \in DOMAIN f /\ cursor.endname \in DOMAIN f[cursor.endgame]
    THEN IF f[cursor.endgame][cursor.endname] = hash THEN "continue"
         ELSE IF f[cursor.endgame][cursor.endname][2] = hash[2] THEN "sizemismatch"
         ELSE "report"
    ELSE "report"

\* Element.find("tag[@name='" + name + "']"): ElementPath reads the quoted
\* string up to the next apostrophe, so a name holding one leaves an invalid
\* predicate and find raises SyntaxError
PredicateParses(name) == "'" \notin Chars(name)

\* the first child whose name attribute is name, 0 for None
Find(children, name) ==
    LET hits == {i \in 1..Len(children) : children[i].name = name}
    IN  IF hits = {} THEN 0 ELSE CHOOSE i \in hits : \A j \in hits : i <= j

\* bool(element): an Element with no children is false
Truthy(element) == Len(element.children) > 0

\* a rom element that gets one marker at most
RomChildrenEither(sizemismatch, hash, r) ==
    IF sizemismatch THEN <<[tag |-> "size_mismatch"]>>
    ELSE IF hash \in DOMAIN r
    THEN <<[tag |-> "found", path |-> r[hash].path, file |-> r[hash].file]>>
    ELSE <<>>

\* lines 157-162: the children of the rom element
RomChildren(sizemismatch, hash, r) ==
    (IF sizemismatch THEN <<[tag |-> "size_mismatch"]>> ELSE <<>>)
    \o (IF hash \in DOMAIN r
        THEN <<[tag |-> "found", path |-> r[hash].path, file |-> r[hash].file]>>
        ELSE <<>>)

\* lines 149-162, both predicates parsing: the report with (game, rom) entered
Report(m, game, rom, sizemismatch, hash, r) ==
    LET gi   == Find(m, game)
        m1   == IF gi = 0 \/ ~Truthy(m[gi])
                THEN Append(m, [name |-> game, children |-> <<>>]) ELSE m
        gpos == IF gi = 0 \/ ~Truthy(m[gi]) THEN Len(m1) ELSE gi
        kids == m1[gpos].children
        ri   == Find(kids, rom)
        k1   == IF ri = 0 \/ ~Truthy(kids[ri])
                THEN Append(kids, [name |-> rom, children |-> <<>>]) ELSE kids
        rpos == IF ri = 0 \/ ~Truthy(kids[ri]) THEN Len(k1) ELSE ri
        k2   == [k1 EXCEPT ![rpos].children = @ \o RomChildren(sizemismatch, hash, r)]
    IN  [m1 EXCEPT ![gpos].children = k2]

----------------------------------------------------------------------------
(* find_missing: the loops.                                                *)

Cursor == [endgame |-> endgame, endrom |-> endrom, endname |-> endname]

Hash == games[gamename].roms[romname].hash

\* history: one more ascent step, leaving the game `left`
Step(kind, left) ==
    IF Len(trail) < MaxSteps THEN Append(trail, [kind |-> kind, left |-> left])
    ELSE trail

\* line 111: the outer loop takes a game (a dict's order is not specified)
ForGame ==
    /\ pc = "games"
    /\ \E g \in todoGames :
         /\ gamename' = g
         /\ todoGames' = todoGames \ {g}
         /\ todoRoms' = DOMAIN games[g].roms
    /\ pc' = "roms"
    /\ UNCHANGED <<unmerged, games, roms, files, scanVars, romname, endgame,
                   endrom, endname, missing, trail, log>>

\* line 164: the outer loop is over
Return ==
    /\ pc = "games"
    /\ todoGames = {}
    /\ pc' = "done"
    /\ UNCHANGED <<unmerged, games, roms, files, scanVars, findVars>>

\* lines 112-115: the inner loop takes a NODUMP rom and skips it
SkipNodump ==
    /\ pc = "roms"
    /\ \E r \in todoRoms :
         /\ IsNodump(games[gamename].roms[r].hash)
         /\ romname' = r
         /\ todoRoms' = todoRoms \ {r}
    /\ UNCHANGED <<unmerged, games, roms, files, scanVars, pc, todoGames,
                   gamename, endgame, endrom, endname, missing, trail, log>>

\* lines 112-120: the inner loop takes a rom and sets the cursor
ForRom ==
    /\ pc = "roms"
    /\ \E r \in todoRoms :
         /\ ~IsNodump(games[gamename].roms[r].hash)
         /\ romname' = r
         /\ todoRoms' = todoRoms \ {r}
         /\ endrom' = r
         /\ endname' = r
    /\ endgame' = gamename
    /\ trail' = <<>>
    /\ pc' = "while"
    /\ UNCHANGED <<unmerged, games, roms, files, scanVars, todoGames, gamename,
                   missing, log>>

\* the inner loop is over
NextGame ==
    /\ pc = "roms"
    /\ todoRoms = {}
    /\ pc' = "games"
    /\ UNCHANGED <<unmerged, games, roms, files, scanVars, findVars>>

\* line 123 games[endgame], line 124 games[endgame]['roms'][endrom]: KeyError
WhileKeyError ==
    /\ pc = "while"
    /\ \/ endgame \notin DOMAIN games
       \/ /\ endgame \in DOMAIN games
          /\ "cloneof" \in DOMAIN games[endgame]
          /\ endrom \notin DOMAIN games[endgame].roms
    /\ pc' = "KeyError"
    /\ UNCHANGED <<unmerged, games, roms, files, scanVars, findVars>>

\* line 123: the cursor's game has no cloneof
WhileExit ==
    /\ pc = "while"
    /\ endgame \in DOMAIN games
    /\ "cloneof" \notin DOMAIN games[endgame]
    /\ pc' = "romof"
    /\ UNCHANGED <<unmerged, games, roms, files, scanVars, findVars>>

\* lines 124-127
AscendMerge ==
    /\ pc = "while"
    /\ endgame \in DOMAIN games
    /\ "cloneof" \in DOMAIN games[endgame]
    /\ endrom \in DOMAIN games[endgame].roms
    /\ "merge" \in DOMAIN games[endgame].roms[endrom]
    /\ endrom' = MergeName(games[endgame].roms[endrom])
    /\ endname' = endrom'
    /\ endgame' = games[endgame].cloneof
    /\ trail' = Step("merge", endgame)
    /\ UNCHANGED <<unmerged, games, roms, files, scanVars, pc, todoGames,
                   gamename, todoRoms, romname, missing, log>>

\* lines 128-130
AscendJoin ==
    /\ pc = "while"
    /\ endgame \in DOMAIN games
    /\ "cloneof" \in DOMAIN games[endgame]
    /\ endrom \in DOMAIN games[endgame].roms
    /\ "merge" \notin DOMAIN games[endgame].roms[endrom]
    /\ Merged(unmerged)
    /\ endname' = CompositeName(gamename, endgame, endrom)
    /\ endgame' = games[endgame].cloneof
    /\ trail' = Step("join", endgame)
    /\ UNCHANGED <<unmerged, games, roms, files, scanVars, pc, todoGames,
                   gamename, todoRoms, romname, endrom, missing, log>>

\* lines 131-132
Break ==
    /\ pc = "while"
    /\ endgame \in DOMAIN games
    /\ "cloneof" \in DOMAIN games[endgame]
    /\ endrom \in DOMAIN games[endgame].roms
    /\ "merge" \notin DOMAIN games[endgame].roms[endrom]
    /\ ~Merged(unmerged)
    /\ pc' = "romof"
    /\ UNCHANGED <<unmerged, games, roms, files, scanVars, findVars>>

\* history: the obligation, where it was looked up and what became of it
Classified(cursor, outcome) ==
    [game |-> gamename, rom |-> romname, hash |-> Hash,
     archive |-> cursor.endgame, entry |-> cursor.endname,
     trail |-> trail, outcome |-> outcome]

\* lines 134-145: the lookup finds the expected hash, "continue"
Satisfied ==
    /\ pc = "romof"
    /\ LET cursor == RomOf(games, Cursor)
       IN  /\ Lookup(files, cursor, Hash) = "continue"
           /\ endgame' = cursor.endgame
           /\ endrom' = cursor.endrom
           /\ endname' = cursor.endname
           /\ log' = Append(log, Classified(cursor, "satisfied"))
    /\ pc' = "roms"
    /\ UNCHANGED <<unmerged, games, roms, files, scanVars, todoGames, gamename,
                   todoRoms, romname, missing, trail>>

\* lines 134-162: the lookup fails and the obligation is entered in the report
Reported ==
    /\ pc = "romof"
    /\ PredicateParses(gamename)
    /\ PredicateParses(romname)
    /\ LET cursor == RomOf(games, Cursor)
           found  == Lookup(files, cursor, Hash)
       IN  /\ found # "continue"
           /\ endgame' = cursor.endgame
           /\ endrom' = cursor.endrom
           /\ endname' = cursor.endname
           /\ missing' = Report(missing, gamename, romname,
                                found = "sizemismatch", Hash, roms)
           /\ log' = Append(log, Classified(cursor, "reported"))
    /\ pc' = "roms"
    /\ UNCHANGED <<unmerged, games, roms, files, scanVars, todoGames, gamename,
                   todoRoms, romname, trail>>

\* lines 149 and 153: the lookup fails and find raises SyntaxError
ReportSyntaxError ==
    /\ pc = "romof"
    /\ ~(PredicateParses(gamename) /\ PredicateParses(romname))
    /\ LET cursor == RomOf(games, Cursor)
       IN  /\ Lookup(files, cursor, Hash) # "continue"
           /\ endgame' = cursor.endgame
           /\ endrom' = cursor.endrom
           /\ endname' = cursor.endname
    /\ pc' = "SyntaxError"
    /\ UNCHANGED <<unmerged, games, roms, files, scanVars, todoGames, gamename,
                   todoRoms, romname, missing, trail, log>>

FindNext ==
    \/ ForGame
    \/ Return
    \/ SkipNodump
    \/ ForRom
    \/ NextGame
    \/ WhileKeyError
    \/ WhileExit
    \/ AscendMerge
    \/ AscendJoin
    \/ Break
    \/ Satisfied
    \/ Reported
    \/ ReportSyntaxError

----------------------------------------------------------------------------
(* read_zips: the loops.                                                   *)

\* sequences over E of length at most n
SeqsUpTo(E, n) == UNION {[1..k -> E] : k \in 0..n}

\* the entry lists of an archive: at most MaxEntries entries, names distinct
EntryLists(entries) ==
    {es \in SeqsUpTo(entries, MaxEntries) :
        \A i, j \in 1..Len(es) : es[i].name = es[j].name => i = j}

\* what a path of the scanned directories may hold
Contents ==
    {[kind |-> k, entries |-> es] :
        k \in {"7z", "zip"},
        es \in EntryLists([name : RomNames, hash : {HashOK, HashSize}])}
    \cup {[kind |-> k, entries |-> <<>>] : k \in {"junk", "unreadable", "unsupported"}}

PathA7 == <<"r", "/", "A", ".", "7z">>

PathAZ == <<"r", "/", "A", ".", "zip">>

PathBZ == <<"r", "/", "B", ".", "zip">>

PathXZ == <<"x", "/", "X", ".", "zip">>

\* os.listdir gives the names of a directory once each, in no specified order
PathLists(paths, n) ==
    {ps \in SeqsUpTo(paths, n) : \A i, j \in 1..Len(ps) : ps[i] = ps[j] => i = j}

Paths == IF phase = "primary" THEN rompaths ELSE addpaths

\* lines 76-96 in read_zip_dir(rompaths, {}, {}): one archive, indexed or skipped
ReadPrimary ==
    /\ pc = "read_zips"
    /\ phase = "primary"
    /\ idx <= Len(rompaths)
    /\ \E content \in Contents :
         LET r == ReadArchive(rompaths[idx], content, roms, files)
         IN  /\ ~r.raised
             /\ roms' = r.roms
             /\ files' = r.files
             /\ scanned' = scanned \o Enumerated(rompaths[idx], content)
    /\ idx' = idx + 1
    /\ UNCHANGED <<unmerged, games, pc, rompaths, addpaths, phase, findVars>>

\* lines 76-96 in read_zip_dir(addpaths, roms, {}): the files dict of this
\* call is dropped by read_zips
ReadAux ==
    /\ pc = "read_zips"
    /\ phase = "aux"
    /\ idx <= Len(addpaths)
    /\ \E content \in Contents :
         LET r == ReadArchive(addpaths[idx], content, roms, <<>>)
         IN  /\ ~r.raised
             /\ roms' = r.roms
             /\ scanned' = scanned \o Enumerated(addpaths[idx], content)
    /\ idx' = idx + 1
    /\ UNCHANGED <<unmerged, games, files, pc, rompaths, addpaths, phase, findVars>>

\* line 80: an exception that is not py7zlib.FormatError leaves read_zip_dir,
\* read_zips and the program
ReadRaises ==
    /\ pc = "read_zips"
    /\ phase \in {"primary", "aux"}
    /\ idx <= Len(Paths)
    /\ \E content \in Contents :
         /\ ReadArchive(Paths[idx], content, roms, files).raised
         /\ pc' = IF content.kind = "unreadable" THEN "IOError" ELSE "ArchiveError"
    /\ UNCHANGED <<unmerged, games, roms, files, scanVars, findVars>>

\* lines 102-103: the first call returns, the second starts
SecondCall ==
    /\ pc = "read_zips"
    /\ phase = "primary"
    /\ idx > Len(rompaths)
    /\ phase' = "aux"
    /\ idx' = 1
    /\ UNCHANGED <<unmerged, games, roms, files, pc, rompaths, addpaths, scanned,
                   findVars>>

\* line 105
ScanReturn ==
    /\ pc = "read_zips"
    /\ phase = "aux"
    /\ idx > Len(addpaths)
    /\ phase' = "done"
    /\ UNCHANGED <<unmerged, games, roms, files, pc, rompaths, addpaths, idx,
                   scanned, findVars>>

ScanNext ==
    \/ ReadPrimary
    \/ ReadAux
    \/ ReadRaises
    \/ SecondCall
    \/ ScanReturn

----------------------------------------------------------------------------
(* The inputs and the specifications.                                      *)

\* the derivation attributes a <game> element may carry
GameAttribs(g, targets) ==
    {[name |-> g]}
    \cup UNION {{[name |-> g, cloneof |-> t], [name |-> g, romof |-> t],
                 [name |-> g, cloneof |-> t, romof |-> t]} : t \in targets \ {g}}

\* the attributes of a <rom> element: verifiable, NODUMP, or merged as RomM
RomElems ==
    {[size |-> 1, crc |-> <<"1">>],
     [size |-> 1, status |-> "nodump"],
     [size |-> 1, crc |-> <<"1">>, merge |-> RomM]}

\* the document with the games S, their attributes at, and the rom elements rm
Document(S, at, rm) ==
    [g \in S |->
        [attrib |-> at[g],
         roms   |-> [r \in {q[2] : q \in {p \in DOMAIN rm : p[1] = g}} |-> rm[<<g, r>>]]]]

\* at most MaxRoms <rom> elements over the games S
RomPlacements(S) ==
    UNION {[P -> RomElems] :
             P \in {Q \in SUBSET (S \X RomNames) : Cardinality(Q) <= MaxRoms}}

\* find_missing starts: the state after parse_dat and read_zips
FindInit(doc, primary, aux, disk) ==
    /\ games = parse_dat(doc)
    /\ roms = read_zips(primary, aux, disk).roms
    /\ files = read_zips(primary, aux, disk).files
    /\ rompaths = primary
    /\ addpaths = aux
    /\ phase = "done"
    /\ idx = Len(aux) + 1
    /\ scanned = EnumeratedAll(primary \o aux, disk)
    /\ pc = "games"
    /\ todoGames = DOMAIN games
    /\ gamename = None
    /\ todoRoms = {}
    /\ romname = None
    /\ endgame = None
    /\ endrom = None
    /\ endname = None
    /\ missing = <<>>
    /\ trail = <<>>
    /\ log = <<>>

Zip(entries) == [kind |-> "zip", entries |-> entries]

SevenZ(entries) == [kind |-> "7z", entries |-> entries]

\* the primary paths of a disk, in the order os.listdir gave them
Listed(disk) ==
    (IF PathA7 \in DOMAIN disk THEN <<PathA7>> ELSE <<>>)
    \o (IF PathBZ \in DOMAIN disk THEN <<PathBZ>> ELSE <<>>)

\* an empty collection, and one whose archive A holds m
SparseDisks ==
    {<<>>, PathA7 :> SevenZ(<<[name |-> RomM, hash |-> HashOK]>>)}

\* Catalogs in breadth: two or three games, A and B derived from any other
\* game name, over a sparse collection.
InitCatalogs ==
    \E S \in {{GameA, GameB}, GameNames} :
      \E a \in GameAttribs(GameA, GameNames), b \in GameAttribs(GameB, GameNames) :
        \E rm \in RomPlacements(S) :
          \E disk \in SparseDisks :
            FindInit(Document(S, (GameA :> a) @@ (GameB :> b) @@ (GameC :> [name |-> GameC]), rm),
                     Listed(disk), <<>>, disk)

\* the archives a collection may hold for a game: the entries taken from a
\* given set, at most MaxEntries of them
Archives(kind, entries) ==
    {[kind |-> kind, entries |-> es] : es \in EntryLists(entries)}

\* the auxiliary archive: absent, or holding the expected bytes as z
AuxDisks == {<<>>, PathXZ :> Zip(<<[name |-> <<"z">>, hash |-> HashOK]>>)}

\* collections in breadth: archives for A and B with the entry names the
\* obligations of B resolve to, and an auxiliary archive
RichDisks ==
    {a @@ b @@ x :
        a \in {<<>>} \cup {PathA7 :> c :
                 c \in Archives("7z", [name : {RomM, Join(GameB, RomF)},
                                       hash : {HashOK, HashSize, HashCrc}])},
        b \in {<<>>} \cup {PathBZ :> c :
                 c \in Archives("zip", [name : {RomF}, hash : {HashOK, HashSize}])},
        x \in AuxDisks}

\* Collections in breadth, over the catalogs of two games where B may be
\* derived from A.
InitCollections ==
    \E b \in GameAttribs(GameB, {GameA}) :
      \E rm \in RomPlacements({GameA, GameB}) :
        \E disk \in RichDisks :
          FindInit(Document({GameA, GameB}, (GameA :> [name |-> GameA]) @@ (GameB :> b), rm),
                   Listed(disk),
                   IF PathXZ \in DOMAIN disk THEN <<PathXZ>> ELSE <<>>, disk)

\* find_missing, from the state parse_dat and read_zips leave
Init ==
    /\ unmerged \in BOOLEAN
    /\ (InitCatalogs \/ InitCollections)

Spec == Init /\ [][FindNext]_vars

\* read_zips starts: the directories listed, nothing indexed; the catalog is
\* that of a document without games
InitScan ==
    /\ unmerged = FALSE
    /\ games = parse_dat(<<>>)
    /\ roms = <<>>
    /\ files = <<>>
    /\ rompaths \in PathLists({PathA7, PathAZ, PathBZ}, 2)
    /\ addpaths \in PathLists({PathXZ}, 1)
    /\ phase = "primary"
    /\ idx = 1
    /\ scanned = <<>>
    /\ pc = "read_zips"
    /\ todoGames = {}
    /\ gamename = None
    /\ todoRoms = {}
    /\ romname = None
    /\ endgame = None
    /\ endrom = None
    /\ endname = None
    /\ missing = <<>>
    /\ trail = <<>>
    /\ log = <<>>

SpecScan == InitScan /\ [][ScanNext]_vars

----------------------------------------------------------------------------
(* What the claims are stated with.                                        *)

\* the obligations classified so far
Entries == {log[i] : i \in 1..Len(log)}

\* the FileIndex holds the archive, and in it the entry with exactly this hash
Holds(archive, entry, hash) ==
    /\ archive \in DOMAIN files
    /\ entry \in DOMAIN files[archive]
    /\ files[archive][entry] = hash

\* the FileIndex holds the entry with this checksum and another size
HoldsOtherSize(archive, entry, hash) ==
    /\ archive \in DOMAIN files
    /\ entry \in DOMAIN files[archive]
    /\ files[archive][entry][2] = hash[2]
    /\ files[archive][entry][1] # hash[1]

\* the <rom> elements of the report for (game, rom), as <<i, j>>
RomNodes(game, rom) ==
    {p \in (1..Len(missing)) \X (1..MaxRoms + 1) :
        /\ missing[p[1]].name = game
        /\ p[2] <= Len(missing[p[1]].children)
        /\ missing[p[1]].children[p[2]].name = rom}

InReport(game, rom) == RomNodes(game, rom) # {}

\* the children of a <rom> element with a tag
Tagged(node, tag) == {k \in 1..Len(node.children) : node.children[k].tag = tag}

\* the game a game is derived from, None without a link
Parent(g) ==
    IF "cloneof" \in DOMAIN games[g] THEN games[g].cloneof
    ELSE IF "romof" \in DOMAIN games[g] THEN games[g].romof
    ELSE None

RECURSIVE Ancestor(_, _)
Ancestor(g, n) ==
    IF n = 0 \/ g \notin DOMAIN games THEN g ELSE Ancestor(Parent(g), n - 1)

LinksCataloged == \A g \in DOMAIN games : Parent(g) \in DOMAIN games \cup {None}

Acyclic ==
    \A g \in DOMAIN games : \A n \in 1..Cardinality(DOMAIN games) : Ancestor(g, n) # g

\* the obligations whose resolution has ended: those classified, and the one
\* find_missing stopped on after its lookup
Resolved ==
    {[game |-> e.game, rom |-> e.rom, hash |-> e.hash,
      archive |-> e.archive, entry |-> e.entry] : e \in Entries}
    \cup (IF pc = "SyntaxError"
          THEN {[game |-> gamename, rom |-> romname, hash |-> Hash,
                 archive |-> endgame, entry |-> endname]}
          ELSE {})

----------------------------------------------------------------------------
(* The claims.                                                             *)

\* C1: an obligation whose resolution ended at (archive, entry) has no rom
\* entry in the report if and only if the FileIndex holds that entry of that
\* archive with the expected size and checksum; in every other case the
\* report has a rom entry for it.
C1_ReportedIffNotHeld ==
    \A o \in Resolved :
        InReport(o.game, o.rom) <=> ~Holds(o.archive, o.entry, o.hash)

\* C2: when every cloneof / romof names a cataloged game and the links form
\* no cycle, find_missing raises nothing, no NODUMP rom is looked up or
\* reported, and when it returns every rom with a nonzero checksum has been
\* classified exactly once: satisfied and absent from the report, or with
\* one rom entry under one game entry.
C2_EveryPairClassifiedOnce ==
    (LinksCataloged /\ Acyclic) =>
        /\ pc \notin {"KeyError", "SyntaxError"}
        /\ \A e \in Entries : ~IsNodump(e.hash)
        /\ \A g \in DOMAIN games : \A r \in DOMAIN games[g].roms :
              /\ IsNodump(games[g].roms[r].hash) => ~InReport(g, r)
              /\ (pc = "done" /\ ~IsNodump(games[g].roms[r].hash)) =>
                    /\ Cardinality({i \in 1..Len(log) :
                                      log[i].game = g /\ log[i].rom = r}) = 1
                    /\ \A e \in Entries : (e.game = g /\ e.rom = r) =>
                          Cardinality(RomNodes(g, r)) =
                              IF e.outcome = "reported" THEN 1 ELSE 0
                    /\ Cardinality({i \in 1..Len(missing) : missing[i].name = g}) <= 1

\* C3: the ascent of an obligation takes at most as many steps as the
\* catalog has games.
C3_AscentBounded == Len(trail) <= Cardinality(DOMAIN games)

\* C4: a cloneof / romof that names a game missing from the catalog is
\* treated as absent: the cursor is never on an uncataloged game, and every
\* obligation is looked up in the archive of a cataloged game.
C4_CursorStaysInCatalog ==
    /\ pc \in {"while", "romof", "KeyError", "SyntaxError"} => endgame \in DOMAIN games
    /\ \A e \in Entries : e.archive \in DOMAIN games

\* the obligations C5 is about: the game is a clone of a cataloged game that
\* has no derivation link of its own, and the rom has a merge name
MergedClone(game, rom) ==
    /\ "cloneof" \in DOMAIN games[game]
    /\ games[game].cloneof \in DOMAIN games
    /\ Parent(games[game].cloneof) = None
    /\ "merge" \in DOMAIN games[game].roms[rom]

\* C5: in both modes, the obligation of a clone B of A for a rom with merge
\* name M is looked up in A's archive under M, and is satisfied (and then has
\* no report entry) exactly when A's archive holds M with the expected hash.
C5_MergedCloneCheckedInParent ==
    \A e \in Entries :
        MergedClone(e.game, e.rom) =>
            LET a == games[e.game].cloneof
                m == games[e.game].roms[e.rom].merge
            IN  /\ e.archive = a
                /\ e.entry = m
                /\ (e.outcome = "satisfied") <=> Holds(a, m, e.hash)
                /\ InReport(e.game, e.rom) <=> ~Holds(a, m, e.hash)

\* C5 happens: such an obligation is satisfied from A's archive while the
\* clone's own archive is not even indexed
C5_Witness ==
    \E e \in Entries :
        /\ MergedClone(e.game, e.rom)
        /\ e.outcome = "satisfied"
        /\ e.rom # e.entry
        /\ e.game \notin DOMAIN files

\* the obligations C6 is about: the game has a cloneof, the rom no merge name
UnmergedOwn(game, rom) ==
    /\ "cloneof" \in DOMAIN games[game]
    /\ "merge" \notin DOMAIN games[game].roms[rom]

\* C6: in unmerged mode the obligation of a clone for a rom without a merge
\* name never ascends: it is looked up in the clone's own archive under the
\* rom's own name, and that entry alone decides whether it is satisfied.
C6_UnmergedStaysInOwnArchive ==
    unmerged =>
        /\ (pc \in {"while", "romof"} /\ UnmergedOwn(gamename, romname)) =>
              (endgame = gamename /\ endname = romname /\ trail = <<>>)
        /\ \A e \in Entries :
              UnmergedOwn(e.game, e.rom) =>
                  /\ e.archive = e.game
                  /\ e.entry = e.rom
                  /\ e.trail = <<>>
                  /\ (e.outcome = "satisfied") <=> Holds(e.game, e.rom, e.hash)

\* C6 happens: the obligation is reported although the parent's archive
\* holds the rom's name with the expected hash
C6_Witness ==
    /\ unmerged
    /\ \E e \in Entries :
          /\ UnmergedOwn(e.game, e.rom)
          /\ e.outcome = "reported"
          /\ games[e.game].cloneof \in DOMAIN games
          /\ Holds(games[e.game].cloneof, e.rom, e.hash)

\* C7: a rom entry of the report has a size_mismatch child exactly when the
\* archive it resolved to is indexed and holds the resolved name with the
\* expected checksum and another size; it has a found child exactly when the
\* expected hash is a key of the ContentIndex, and that child carries the
\* path and the entry name recorded there.
C7_ReportMarkers ==
    \A i \in 1..Len(missing) : \A j \in 1..Len(missing[i].children) :
        LET node == missing[i].children[j]
            es   == {e \in Entries : /\ e.game = missing[i].name
                                     /\ e.rom = node.name
                                     /\ e.outcome = "reported"}
        IN  /\ Cardinality(es) = 1
            /\ \A e \in es :
                  /\ Cardinality(Tagged(node, "size_mismatch")) =
                        IF HoldsOtherSize(e.archive, e.entry, e.hash) THEN 1 ELSE 0
                  /\ Cardinality(Tagged(node, "found")) =
                        IF e.hash \in DOMAIN roms THEN 1 ELSE 0
                  /\ \A k \in Tagged(node, "found") :
                        /\ node.children[k].path = roms[e.hash].path
                        /\ node.children[k].file = roms[e.hash].file

\* C7 happens: a rom entry with both children, the bytes found in another
\* archive than the one the obligation resolved to
C7_Witness ==
    \E i \in 1..Len(missing) : \E j \in 1..Len(missing[i].children) :
        LET node == missing[i].children[j]
        IN  /\ Tagged(node, "size_mismatch") # {}
            /\ \E k \in Tagged(node, "found") :
                  \E e \in Entries :
                      /\ e.game = missing[i].name
                      /\ e.rom = node.name
                      /\ ZipName(node.children[k].path) # e.archive

\* the first entry enumerated with a hash
FirstSeen(hash) ==
    scanned[CHOOSE i \in 1..Len(scanned) :
                /\ scanned[i].hash = hash
                /\ \A j \in 1..Len(scanned) : scanned[j].hash = hash => i <= j]

\* the position of a path in the scan order: primary paths, then auxiliary
ScanPosition(path) ==
    CHOOSE k \in 1..Len(rompaths \o addpaths) : (rompaths \o addpaths)[k] = path

\* C8: the entries are enumerated primary paths first, then auxiliary paths,
\* each list in its order, and the ContentIndex maps every hash enumerated
\* to the archive, path and entry name of the first entry that had it.
C8_FirstWins ==
    /\ \A i, j \in 1..Len(scanned) :
          i <= j => ScanPosition(scanned[i].path) <= ScanPosition(scanned[j].path)
    /\ DOMAIN roms = {scanned[i].hash : i \in 1..Len(scanned)}
    /\ \A h \in DOMAIN roms :
          roms[h] = [name |-> FirstSeen(h).name, path |-> FirstSeen(h).path,
                     file |-> FirstSeen(h).file]

\* C8 happens: read_zips has returned, and an auxiliary archive held bytes
\* a primary archive had under another name
C8_Witness ==
    /\ phase = "done"
    /\ \E i, j \in 1..Len(scanned) :
          /\ i < j
          /\ scanned[i].hash = scanned[j].hash
          /\ scanned[i].file # scanned[j].file
          /\ scanned[j].path = PathXZ
          /\ roms[scanned[i].hash].path = scanned[i].path

\* C9: no archive, however it fails to open or to enumerate, ends the run.
C9_NoArchiveEndsTheRun == pc \notin {"IOError", "ArchiveError"}

\* the steps of a trail are all of one kind
AllOfKind(t, kind) == \A k \in 1..Len(t) : t[k].kind = kind

\* C10 as claimed: a step taken for a rom without a merge name leaves the
\* entry name <game left>/<rom>, and after two such steps the lookup uses
\* <intermediate game>/<rom>.
C10_CompositeNamesGameLeft ==
    /\ (pc = "while" /\ Len(trail) \in 1..(MaxSteps - 1)
        /\ trail[Len(trail)].kind = "join") =>
            endname = Join(trail[Len(trail)].left, endrom)
    /\ \A e \in Entries :
          (Len(e.trail) = 2 /\ AllOfKind(e.trail, "join")) =>
              e.entry = Join(e.trail[2].left, e.rom)

\* C10: in merged mode a step taken for a rom without a merge name leaves
\* the entry name os.path.join(<game of the obligation>, <rom>); after two
\* such steps, G to P to Q, the lookup is in Q's archive under <G>/<rom>.
C10_CompositeNamesOwner ==
    /\ (pc = "while" /\ Len(trail) \in 1..(MaxSteps - 1)
        /\ trail[Len(trail)].kind = "join") =>
            (~unmerged /\ endname = Join(gamename, endrom))
    /\ \A e \in Entries :
          (Len(e.trail) = 2 /\ AllOfKind(e.trail, "join")) =>
              /\ e.trail[1].left = e.game
              /\ e.archive = games[e.trail[2].left].cloneof
              /\ e.entry = Join(e.game, e.rom)

\* C10 happens: an obligation of G looked up in Q's archive after the steps
\* G to P and P to Q
C10_Witness ==
    \E e \in Entries :
        /\ Len(e.trail) = 2
        /\ AllOfKind(e.trail, "join")
        /\ e.trail[2].left # e.game
        /\ e.archive \notin {e.game, e.trail[2].left}
        /\ e.entry = e.game \o <<"/">> \o e.rom

====
